---- MODULE Spec2Model ----
(***************************************************************************)
(* Model of the MCP server evaluation harness                              *)
(* (src/skills/mcp-builder/scripts/evaluation.py): MCPEvaluator, its four  *)
(* probes, _send_request, print_report and main.                           *)
(***************************************************************************)
EXTENDS Integers, Sequences, FiniteSets, TLC

VARIABLES pc, probe, results, children, stdout, ret, success, exitCode, argc,
          session, server, returned, cur, other, stores, manifestCache, reply

\* what belongs to the code that calls evaluate(): the server it points the
\* evaluator at, the lists earlier calls returned to it, and, when it runs two
\* evaluators as tasks of one event loop, the running task and the waiting one
caller == <<server, returned, cur, other>>

\* a RAPPStoreAgent (src/agents/rapp_store_agent/rapp_store_agent.py): its
\* registry self.stores, its self._manifest_cache, and what perform() returned
agent == <<stores, manifestCache, reply>>

vars == <<pc, probe, results, children, stdout, ret, success, exitCode, argc,
          session, caller, agent>>

(***************************************************************************)
(* Bounds of the model.                                                    *)
(***************************************************************************)
\* longest tools array a server answers with
MaxTools == 2
\* longest stdout (in lines) given to the response scan on its own
MaxLines == 3
\* how many times a caller calls evaluate() on one evaluator
MaxRuns == 2

(***************************************************************************)
(* JSON values as json.loads() builds them: a tag t and a value v.         *)
(***************************************************************************)
JNull == [t |-> "null", v |-> 0]
JNum(n) == [t |-> "num", v |-> n]
JStr(s) == [t |-> "str", v |-> s]
JList(s) == [t |-> "list", v |-> s]
JDict(f) == [t |-> "dict", v |-> f]
EmptyDict == JDict(<<>>)

\* Python's None; json null loads as None, and dict.get() of a missing key is None
PyNone == JNull

\* type(x).__name__ as Python prints it in its error messages
PyTypeName(j) ==
    CASE j.t = "null" -> "NoneType"
      [] j.t = "num" -> "int"
      [] j.t = "str" -> "str"
      [] j.t = "list" -> "list"
      [] j.t = "dict" -> "dict"

\* the outcome of evaluating a Python expression: a value, or a raised exception
Return(val) == [ok |-> TRUE, val |-> val, exc |-> [type |-> "", msg |-> ""]]
Raise(type, msg) == [ok |-> FALSE, val |-> PyNone, exc |-> [type |-> type, msg |-> msg]]
NoExc == [type |-> "", msg |-> ""]

\* the classes `except Exception` catches among those the harness can meet
ExceptionClasses ==
    {"TimeoutError", "FileNotFoundError", "AttributeError", "TypeError",
     "KeyError", "UnicodeDecodeError", "JSONDecodeError"}

\* s contains sub (Python's `sub in s` on strings)
Contains(s, sub) ==
    \E i \in 1..(Len(s) - Len(sub) + 1) : SubSeq(s, i, i + Len(sub) - 1) = sub

\* bool(x)
Truthy(j) ==
    CASE j.t = "null" -> FALSE
      [] j.t = "num" -> j.v # 0
      [] j.t = "str" -> j.v # ""
      [] j.t = "list" -> Len(j.v) > 0
      [] j.t = "dict" -> DOMAIN j.v # {}

\* `key in x` for a string key
PyIn(key, j) ==
    CASE j.t = "dict" -> Return(key \in DOMAIN j.v)
      [] j.t = "list" -> Return(\E i \in 1..Len(j.v) : j.v[i] = JStr(key))
      [] j.t = "str" -> Return(Contains(j.v, key))
      [] OTHER -> Raise("TypeError",
                        "argument of type '" \o PyTypeName(j) \o "' is not iterable")

\* x[key] for a string key
PyGetItem(j, key) ==
    CASE j.t = "dict" ->
            IF key \in DOMAIN j.v THEN Return(j.v[key])
            ELSE Raise("KeyError", "'" \o key \o "'")
      [] j.t = "str" -> Raise("TypeError", "string indices must be integers, not 'str'")
      [] j.t = "list" ->
            Raise("TypeError", "list indices must be integers or slices, not str")
      [] OTHER -> Raise("TypeError",
                        "'" \o PyTypeName(j) \o "' object is not subscriptable")

\* x.get(key, default): only dicts have .get
PyGet(j, key, default) ==
    IF j.t = "dict"
    THEN Return(IF key \in DOMAIN j.v THEN j.v[key] ELSE default)
    ELSE Raise("AttributeError",
               "'" \o PyTypeName(j) \o "' object has no attribute 'get'")

\* len(x)
PyLen(j) ==
    CASE j.t = "list" -> Return(Len(j.v))
      [] j.t = "str" -> Return(Len(j.v))
      [] j.t = "dict" -> Return(Cardinality(DOMAIN j.v))
      [] OTHER -> Raise("TypeError",
                        "object of type '" \o PyTypeName(j) \o "' has no len()")

\* the items `for tool in x` visits; a str yields its characters
PyIter(j) ==
    CASE j.t = "list" -> Return(j.v)
      [] j.t = "str" -> Return([i \in 1..Len(j.v) |-> JStr(SubSeq(j.v, i, i))])
      [] j.t \in {"null", "num"} ->
            Raise("TypeError", "'" \o PyTypeName(j) \o "' object is not iterable")

\* str(x) inside an f-string, for the values a tool name takes here
PyStr(j) ==
    CASE j.t = "str" -> j.v
      [] j.t = "num" -> ToString(j.v)
      [] j.t = "null" -> "None"

\* x == 2 (json ints and floats compare by value; other types are unequal)
PyEqInt(j, n) == j.t = "num" /\ j.v = n

(***************************************************************************)
(* EvaluationResult and the outcome of a try block.                        *)
(***************************************************************************)
EvaluationResult(name, passed, message, severity) ==
    [name |-> name, passed |-> passed, message |-> message, severity |-> severity]

\* a block ran to its end with the result list res
Done(res) == [results |-> res, raised |-> FALSE, exc |-> NoExc]
\* a block raised exc, leaving the result list res behind
Raised(res, exc) == [results |-> res, raised |-> TRUE, exc |-> exc]

\* whether an `except cls` clause catches the exception exc
Catches(cls, exc) ==
    IF cls = "Exception" THEN exc.type \in ExceptionClasses ELSE exc.type = cls

(***************************************************************************)
(* What a child process leaves behind: bytes on stdout and stderr.         *)
(* Bytes are the lines they decode to, or are not valid UTF-8.             *)
(***************************************************************************)
BlankLine == [k |-> "blank", json |-> JNull]
TextLine == [k |-> "text", json |-> JNull]
JsonLine(j) == [k |-> "json", json |-> j]

Bytes(lines) == [utf8 |-> TRUE, lines |-> lines]
BadBytes == [utf8 |-> FALSE, lines |-> <<>>]
NoBytes == Bytes(<<>>)

\* bool(stdout) of a bytes object: non-empty
BytesTruthy(b) == ~b.utf8 \/ b.lines # <<>>

\* bytes.decode()
Decode(b) ==
    IF b.utf8 THEN Return(b.lines)
    ELSE Raise("UnicodeDecodeError",
               "'utf-8' codec can't decode byte 0xff in position 0: invalid start byte")

\* stderr is only ever decoded as one text: bytes holding that text, or not UTF-8
TextBytes(s) == [utf8 |-> TRUE, text |-> s]
BadTextBytes == [utf8 |-> FALSE, text |-> ""]

\* stderr.decode()
DecodeText(b) ==
    IF b.utf8 THEN Return(b.text)
    ELSE Raise("UnicodeDecodeError",
               "'utf-8' codec can't decode byte 0xff in position 0: invalid start byte")

RECURSIVE DropBlankHead(_)
DropBlankHead(lines) ==
    IF lines = <<>> \/ Head(lines).k # "blank" THEN lines
    ELSE DropBlankHead(Tail(lines))

RECURSIVE DropBlankTail(_)
DropBlankTail(lines) ==
    IF lines = <<>> \/ lines[Len(lines)].k # "blank" THEN lines
    ELSE DropBlankTail(SubSeq(lines, 1, Len(lines) - 1))

\* text.strip().split("\n"): the empty text splits into one empty line
StripSplit(lines) ==
    LET s == DropBlankTail(DropBlankHead(lines))
    IN  IF s = <<>> THEN <<BlankLine>> ELSE s

\* json.loads(line)
JsonLoads(line) ==
    IF line.k = "json" THEN Return(line.json)
    ELSE Raise("JSONDecodeError", "Expecting value: line 1 column 1 (char 0)")

(***************************************************************************)
(* _send_request, lines 245-255: the scan of the decoded lines for the     *)
(* response with id 2.                                                     *)
(***************************************************************************)
RequestId == 2

\* lines 249-251: the body of the try inside the loop, for one line
MatchLine(line) ==
    LET response == JsonLoads(line)
    IN  IF ~response.ok THEN response
        ELSE LET id == PyGet(response.val, "id", PyNone)
             IN  IF ~id.ok THEN id
                 ELSE IF PyEqInt(id.val, RequestId)
                      THEN [ok |-> TRUE, val |-> PyGet(response.val, "result", PyNone).val,
                            exc |-> NoExc, found |-> TRUE]
                      ELSE [ok |-> TRUE, val |-> PyNone, exc |-> NoExc, found |-> FALSE]

RECURSIVE ScanResponses(_, _)
ScanResponses(lines, i) ==
    IF i > Len(lines) THEN Return(PyNone)
    ELSE IF lines[i].k = "blank" THEN ScanResponses(lines, i + 1)
    ELSE LET m == MatchLine(lines[i])
         IN  IF ~m.ok
             THEN IF Catches("JSONDecodeError", m.exc)
                  THEN ScanResponses(lines, i + 1)
                  ELSE [ok |-> FALSE, val |-> PyNone, exc |-> m.exc]
             ELSE IF m.found THEN Return(m.val)
             ELSE ScanResponses(lines, i + 1)

\* lines 246-255 on the collected stdout bytes
ParseResponses(out) ==
    LET text == Decode(out)
    IN  IF ~text.ok THEN text ELSE ScanResponses(StripSplit(text.val), 1)

(***************************************************************************)
(* One session with a child process, as the probe that owns it sees it:    *)
(* the launch failed, the wait timed out, or the child exited and its      *)
(* output was collected.                                                   *)
(***************************************************************************)
LaunchFailed(exc) ==
    [kind |-> "launch_error", exc |-> exc, returncode |-> 0,
     stdout |-> NoBytes, stderr |-> TextBytes("")]
TimedOut ==
    [kind |-> "timeout", exc |-> [type |-> "TimeoutError", msg |-> ""],
     returncode |-> 0, stdout |-> NoBytes, stderr |-> TextBytes("")]
Exited(rc, out, err) ==
    [kind |-> "done", exc |-> NoExc, returncode |-> rc, stdout |-> out, stderr |-> err]
\* no child has been launched, or its session is over and forgotten
NoSession ==
    [kind |-> "none", exc |-> NoExc, returncode |-> 0, stdout |-> NoBytes,
     stderr |-> TextBytes("")]

\* _send_request, lines 210-255: what the call returns or raises for a session
SendRequest(sess) ==
    IF sess.kind = "done" THEN ParseResponses(sess.stdout)
    ELSE [ok |-> FALSE, val |-> PyNone, exc |-> sess.exc]

(***************************************************************************)
(* _check_server_starts, lines 44-99.                                      *)
(***************************************************************************)
\* ServerStartsTry judging by the exit status alone
ServerStartsTryExitOnly(res, sess) ==
    IF sess.kind # "done" THEN Raised(res, sess.exc)
    ELSE IF sess.returncode = 0
    THEN Done(Append(res, EvaluationResult("Server Startup", TRUE,
                                           "Server starts successfully", "info")))
    ELSE LET text == DecodeText(sess.stderr)
         IN  IF ~text.ok THEN Raised(res, text.exc)
             ELSE Done(Append(res, EvaluationResult("Server Startup", FALSE,
                           "Server failed to start: " \o text.val, "error")))

\* lines 72-85
ServerStartsTry(res, sess) ==
    IF sess.kind # "done" THEN Raised(res, sess.exc)
    ELSE IF sess.returncode = 0 \/ BytesTruthy(sess.stdout)
    THEN Done(Append(res, EvaluationResult("Server Startup", TRUE,
                                           "Server starts successfully", "info")))
    ELSE LET text == DecodeText(sess.stderr)
         IN  IF ~text.ok THEN Raised(res, text.exc)
             ELSE Done(Append(res, EvaluationResult("Server Startup", FALSE,
                           "Server failed to start: " \o text.val, "error")))

\* lines 86-92
ServerStartsOnTimeout(res) ==
    Append(res, EvaluationResult("Server Startup", FALSE,
                                 "Server startup timed out", "error"))

\* lines 93-99
ServerStartsOnException(res, e) ==
    Append(res, EvaluationResult("Server Startup", FALSE,
                                 "Error starting server: " \o e.msg, "error"))

\* CheckServerStarts without its `except asyncio.TimeoutError` clause
CheckServerStartsOneClause(res, sess) ==
    LET t == ServerStartsTry(res, sess)
    IN  IF ~t.raised THEN t
        ELSE IF Catches("Exception", t.exc)
        THEN Done(ServerStartsOnException(t.results, t.exc))
        ELSE t

CheckServerStarts(res, sess) ==
    LET t == ServerStartsTry(res, sess)
    IN  IF ~t.raised THEN t
        ELSE IF Catches("TimeoutError", t.exc) THEN Done(ServerStartsOnTimeout(t.results))
        ELSE IF Catches("Exception", t.exc)
        THEN Done(ServerStartsOnException(t.results, t.exc))
        ELSE t

(***************************************************************************)
(* _check_tools_list, lines 101-135.                                       *)
(***************************************************************************)
\* InvalidToolsList built with the severity of a passed result
InvalidToolsListAsInfo(res) ==
    Append(res, EvaluationResult("Tools List", FALSE,
                                 "Invalid tools/list response", "info"))

\* lines 123-128
InvalidToolsList(res) ==
    Append(res, EvaluationResult("Tools List", FALSE,
                                 "Invalid tools/list response", "error"))

\* ToolsFound reporting an empty tools array with severity error
ToolsFoundEmptyIsError(res, result) ==
    LET tools == PyGetItem(result, "tools")
        n == IF tools.ok THEN PyLen(tools.val) ELSE tools
    IN  IF ~n.ok THEN Raised(res, n.exc)
        ELSE LET found == Append(res, EvaluationResult("Tools List", TRUE,
                              "Found " \o ToString(n.val) \o " tool(s)", "info"))
             IN  IF n.val = 0
                 THEN Done(Append(found, EvaluationResult("Tools Count", FALSE,
                                      "Server has no tools defined", "error")))
                 ELSE Done(found)

\* lines 107-121
ToolsFound(res, result) ==
    LET tools == PyGetItem(result, "tools")
        n == IF tools.ok THEN PyLen(tools.val) ELSE tools
    IN  IF ~n.ok THEN Raised(res, n.exc)
        ELSE LET found == Append(res, EvaluationResult("Tools List", TRUE,
                              "Found " \o ToString(n.val) \o " tool(s)", "info"))
             IN  IF n.val = 0
                 THEN Done(Append(found, EvaluationResult("Tools Count", FALSE,
                                      "Server has no tools defined", "warning")))
                 ELSE Done(found)

\* lines 104-128
ToolsListTry(res, r) ==
    IF ~r.ok THEN Raised(res, r.exc)
    ELSE IF ~Truthy(r.val) THEN Done(InvalidToolsList(res))
    ELSE LET has == PyIn("tools", r.val)
         IN  IF ~has.ok THEN Raised(res, has.exc)
             ELSE IF has.val THEN ToolsFound(res, r.val)
             ELSE Done(InvalidToolsList(res))

\* ToolsListOnException reporting the exception with the leniency of the
\* resources probe
ToolsListOnExceptionLenient(res, e) ==
    Append(res, EvaluationResult("Tools List", TRUE,
                                 "Error listing tools: " \o e.msg, "info"))

\* lines 129-135
ToolsListOnException(res, e) ==
    Append(res, EvaluationResult("Tools List", FALSE,
                                 "Error listing tools: " \o e.msg, "error"))

\* CheckToolsList without its except clause
CheckToolsListUnguarded(res, r) == ToolsListTry(res, r)

CheckToolsList(res, r) ==
    LET t == ToolsListTry(res, r)
    IN  IF ~t.raised THEN t
        ELSE IF Catches("Exception", t.exc)
        THEN Done(ToolsListOnException(t.results, t.exc))
        ELSE t

(***************************************************************************)
(* _check_tool_schemas, lines 137-186.                                     *)
(***************************************************************************)
\* ToolMissingName putting its result at the head of the list
ToolMissingNamePrepends(res) ==
    <<EvaluationResult("Tool Schema", FALSE, "Tool missing 'name' field", "error")>>
        \o res

\* lines 146-151
ToolMissingName(res) ==
    Append(res, EvaluationResult("Tool Schema", FALSE,
                                 "Tool missing 'name' field", "error"))

\* ToolDescription reading tool["description"] without asking whether the
\* entry has one
ToolDescriptionUnguarded(res, tool, name) ==
    LET d == PyGetItem(tool, "description")
    IN  IF ~d.ok THEN Raised(res, d.exc)
        ELSE IF ~Truthy(d.val)
        THEN Done(Append(res, EvaluationResult(
                      "Tool '" \o PyStr(name) \o "' Description", FALSE,
                      "Tool missing description", "warning")))
        ELSE Done(res)

\* lines 156-162: the description check of one named tool
ToolDescription(res, tool, name) ==
    LET has == PyIn("description", tool)
        d == IF has.ok /\ has.val THEN PyGetItem(tool, "description") ELSE has
    IN  IF ~d.ok THEN Raised(res, d.exc)
        ELSE IF ~has.val \/ ~Truthy(d.val)
        THEN Done(Append(res, EvaluationResult(
                      "Tool '" \o PyStr(name) \o "' Description", FALSE,
                      "Tool missing description", "warning")))
        ELSE Done(res)

\* ToolInputSchema saying nothing about a tool without inputSchema
ToolInputSchemaSilent(res, tool, name) ==
    LET has == PyIn("inputSchema", tool)
    IN  IF ~has.ok THEN Raised(res, has.exc)
        ELSE IF has.val
        THEN LET schema == PyGetItem(tool, "inputSchema")
                 type == IF schema.ok THEN PyGet(schema.val, "type", PyNone) ELSE schema
             IN  IF ~type.ok THEN Raised(res, type.exc)
                 ELSE IF type.val # JStr("object")
                 THEN Done(Append(res, EvaluationResult(
                               "Tool '" \o PyStr(name) \o "' Schema", FALSE,
                               "inputSchema type should be 'object'", "warning")))
                 ELSE Done(res)
        ELSE Done(res)

\* lines 164-179: the inputSchema check of one named tool
ToolInputSchema(res, tool, name) ==
    LET has == PyIn("inputSchema", tool)
    IN  IF ~has.ok THEN Raised(res, has.exc)
        ELSE IF has.val
        THEN LET schema == PyGetItem(tool, "inputSchema")
                 type == IF schema.ok THEN PyGet(schema.val, "type", PyNone) ELSE schema
             IN  IF ~type.ok THEN Raised(res, type.exc)
                 ELSE IF type.val # JStr("object")
                 THEN Done(Append(res, EvaluationResult(
                               "Tool '" \o PyStr(name) \o "' Schema", FALSE,
                               "inputSchema type should be 'object'", "warning")))
                 ELSE Done(res)
        ELSE Done(Append(res, EvaluationResult(
                      "Tool '" \o PyStr(name) \o "' Schema", TRUE,
                      "Tool has valid schema (no input required)", "info")))

\* CheckTool going on with the checks of an entry that has no name
CheckToolUnnamedChecked(res, tool) ==
    LET has == PyIn("name", tool)
    IN  IF ~has.ok THEN Raised(res, has.exc)
        ELSE LET name == IF has.val THEN PyGetItem(tool, "name") ELSE Return(PyNone)
                 r == IF has.val THEN res ELSE ToolMissingName(res)
             IN  IF ~name.ok THEN Raised(res, name.exc)
                 ELSE LET d == ToolDescription(r, tool, name.val)
                      IN  IF d.raised THEN d
                          ELSE ToolInputSchema(d.results, tool, name.val)

\* lines 144-179: the body of the loop for one tool entry
CheckTool(res, tool) ==
    LET has == PyIn("name", tool)
    IN  IF ~has.ok THEN Raised(res, has.exc)
        ELSE IF ~has.val THEN Done(ToolMissingName(res))
        ELSE LET name == PyGetItem(tool, "name")
             IN  IF ~name.ok THEN Raised(res, name.exc)
                 ELSE LET d == ToolDescription(res, tool, name.val)
                      IN  IF d.raised THEN d
                          ELSE ToolInputSchema(d.results, tool, name.val)

\* line 143: the for loop over the tool entries, from entry i on
RECURSIVE ToolSchemasLoop(_, _, _)
ToolSchemasLoop(res, tools, i) ==
    IF i > Len(tools) THEN Done(res)
    ELSE LET t == CheckTool(res, tools[i])
         IN  IF t.raised THEN t ELSE ToolSchemasLoop(t.results, tools, i + 1)

\* ToolSchemasTry reporting a response without tools as the Tools List probe does
ToolSchemasTryReporting(res, r) ==
    IF ~r.ok THEN Raised(res, r.exc)
    ELSE IF ~Truthy(r.val)
    THEN Done(Append(res, EvaluationResult("Tool Schemas", FALSE,
                                           "Invalid tools/list response", "error")))
    ELSE LET has == PyIn("tools", r.val)
             tools == IF has.ok /\ has.val THEN PyGetItem(r.val, "tools") ELSE has
             items == IF tools.ok /\ has.val THEN PyIter(tools.val) ELSE tools
         IN  IF ~items.ok THEN Raised(res, items.exc)
             ELSE IF ~has.val
             THEN Done(Append(res, EvaluationResult("Tool Schemas", FALSE,
                                   "Invalid tools/list response", "error")))
             ELSE ToolSchemasLoop(res, items.val, 1)

\* lines 140-179
ToolSchemasTry(res, r) ==
    IF ~r.ok THEN Raised(res, r.exc)
    ELSE IF ~Truthy(r.val) THEN Done(res)
    ELSE LET has == PyIn("tools", r.val)
             tools == IF has.ok /\ has.val THEN PyGetItem(r.val, "tools") ELSE has
             items == IF tools.ok /\ has.val THEN PyIter(tools.val) ELSE tools
         IN  IF ~items.ok THEN Raised(res, items.exc)
             ELSE IF ~has.val THEN Done(res)
             ELSE ToolSchemasLoop(res, items.val, 1)

\* ToolSchemasOnException with the leniency of the resources probe
ToolSchemasOnExceptionLenient(res, e) ==
    Append(res, EvaluationResult("Tool Schemas", TRUE,
                                 "Error checking schemas: " \o e.msg, "info"))

\* lines 180-186
ToolSchemasOnException(res, e) ==
    Append(res, EvaluationResult("Tool Schemas", FALSE,
                                 "Error checking schemas: " \o e.msg, "error"))

\* CheckToolSchemas swallowing the exception without a result
CheckToolSchemasSilent(res, r) ==
    LET t == ToolSchemasTry(res, r)
    IN  IF ~t.raised THEN t
        ELSE IF Catches("Exception", t.exc) THEN Done(t.results)
        ELSE t

CheckToolSchemas(res, r) ==
    LET t == ToolSchemasTry(res, r)
    IN  IF ~t.raised THEN t
        ELSE IF Catches("Exception", t.exc)
        THEN Done(ToolSchemasOnException(t.results, t.exc))
        ELSE t

(***************************************************************************)
(* _check_resources_list, lines 188-208.                                   *)
(***************************************************************************)
\* lines 191-200
ResourcesListTry(res, r) ==
    IF ~r.ok THEN Raised(res, r.exc)
    ELSE IF r.val = PyNone THEN Done(res)
    ELSE LET resources == PyGet(r.val, "resources", JList(<<>>))
             n == IF resources.ok THEN PyLen(resources.val) ELSE resources
         IN  IF ~n.ok THEN Raised(res, n.exc)
             ELSE Done(Append(res, EvaluationResult("Resources List", TRUE,
                           "Found " \o ToString(n.val) \o " resource(s)", "info")))

\* ResourcesListOnException reporting the exception as the other probes do
ResourcesListOnExceptionStrict(res, e) ==
    Append(res, EvaluationResult("Resources List", FALSE,
                                 "Error listing resources: " \o e.msg, "error"))

\* lines 201-208
ResourcesListOnException(res, e) ==
    Append(res, EvaluationResult("Resources List", TRUE,
                                 "Resources not implemented (optional)", "info"))

CheckResourcesList(res, r) ==
    LET t == ResourcesListTry(res, r)
    IN  IF ~t.raised THEN t
        ELSE IF Catches("Exception", t.exc)
        THEN Done(ResourcesListOnException(t.results, t.exc))
        ELSE t

(***************************************************************************)
(* print_report, lines 257-289, and the exit status of main, line 301.     *)
(***************************************************************************)
\* line 263
ErrorsBucket(res) == SelectSeq(res, LAMBDA r : r.severity = "error" /\ ~r.passed)
\* line 264
WarningsBucket(res) == SelectSeq(res, LAMBDA r : r.severity = "warning" /\ ~r.passed)
\* PassedBucket taking every result that is not of severity error
PassedBucketNotErrors(res) == SelectSeq(res, LAMBDA r : r.severity # "error")

\* line 265
PassedBucket(res) == SelectSeq(res, LAMBDA r : r.passed)

\* PrintReport failing the run on warnings too
PrintReportCountingWarnings(res) ==
    Len(ErrorsBucket(res)) + Len(WarningsBucket(res)) = 0

\* line 289: the value print_report returns
PrintReport(res) == Len(ErrorsBucket(res)) = 0

\* line 301
ExitStatus(ok) == IF ok THEN 0 ELSE 1

(***************************************************************************)
(* What a server under test may answer.                                    *)
(***************************************************************************)
ObjectSchema == JDict([type |-> JStr("object")])
StringSchema == JDict([type |-> JStr("string")])

\* a tool entry with the name "echo" and the given other fields
Tool(fields) == JDict([name |-> JStr("echo")] @@ fields)

\* tool entries of a tools array: each way through the checks of one entry
ToolEntries ==
    { Tool([description |-> JStr("Echo"), inputSchema |-> ObjectSchema]),
      Tool(<<>>),
      Tool([description |-> JStr(""), inputSchema |-> StringSchema]),
      Tool([description |-> JStr("Echo")]),
      Tool([description |-> JStr("Echo"), inputSchema |-> StringSchema]),
      Tool([description |-> JStr("Echo"), inputSchema |-> EmptyDict]),
      Tool([description |-> JStr("Echo"), inputSchema |-> JStr("object")]),
      JDict([description |-> JStr("Echo")]),
      JNum(5) }

\* the sequences over S of length at most n
SeqsUpTo(S, n) == UNION { [1..k -> S] : k \in 0..n }

\* `result` payloads of the id-2 response, per request method
Payloads(method) ==
    {JNull, JNum(5), EmptyDict} \cup
    (IF method = "tools/list"
     THEN { JDict([tools |-> JList(ts)]) : ts \in SeqsUpTo(ToolEntries, MaxTools) }
          \cup { JDict([tools |-> JNull]), JDict([resources |-> JList(<<>>)]) }
     ELSE { JDict([resources |-> JList(<<>>)]), JDict([resources |-> JList(<<EmptyDict>>)]),
            JDict([resources |-> JNull]), JDict([tools |-> JList(<<>>)]) })

Response(id, result) == JsonLine(JDict([jsonrpc |-> JStr("2.0"), id |-> JNum(id),
                                        result |-> result]))
ErrorResponse(id) == JsonLine(JDict([jsonrpc |-> JStr("2.0"), id |-> JNum(id),
                                     error |-> JDict([code |-> JNum(-32601)])]))
Notification == JsonLine(JDict([jsonrpc |-> JStr("2.0"), method |-> JStr("log")]))
InitializeResponse == Response(1, EmptyDict)

\* what a child may have written to stdout when it exits, per request method
Stdouts(method) ==
    IF method = "initialize" THEN {NoBytes, BadBytes, Bytes(<<InitializeResponse>>)}
    ELSE {NoBytes, BadBytes, Bytes(<<InitializeResponse>>),
          Bytes(<<InitializeResponse, ErrorResponse(RequestId)>>),
          Bytes(<<JsonLine(JNum(5)), Response(RequestId, EmptyDict)>>),
          Bytes(<<TextLine, BlankLine, Response(RequestId, EmptyDict)>>)}
         \cup { Bytes(<<InitializeResponse, Response(RequestId, p)>>) :
                    p \in Payloads(method) }

Stderrs == {TextBytes(""), TextBytes("boom"), BadTextBytes}

ReturnCodes == {0, 1}

\* the exception create_subprocess_exec raises when the command cannot be started
LaunchError ==
    [type |-> "FileNotFoundError",
     msg |-> "[Errno 2] No such file or directory: 'server'"]

(***************************************************************************)
(* The server the evaluator is pointed at. A server whose behaviour is not *)
(* fixed may answer each launch and each wait differently; a server with a *)
(* fixed behaviour starts or fails to start every time alike, and answers  *)
(* the same stdin with the same session every time.                        *)
(***************************************************************************)
Methods == {"initialize", "tools/list", "resources/list"}

AnyServer == [fixed |-> FALSE, starts |-> TRUE, on |-> [m \in Methods |-> TimedOut]]

FixedServer(starts, on) == [fixed |-> TRUE, starts |-> starts, on |-> on]

(***************************************************************************)
(* evaluate(), lines 32-42: the four probes in order.                      *)
(***************************************************************************)
NumProbes == 4

ProbeName(k) ==
    CASE k = 1 -> "Server Startup"
      [] k = 2 -> "Tools List"
      [] k = 3 -> "Tool Schemas"
      [] k = 4 -> "Resources List"

\* the method of the id-2 request of probe k (probe 1 sends initialize only)
ProbeMethod(k) ==
    CASE k = 1 -> "initialize"
      [] k = 2 -> "tools/list"
      [] k = 3 -> "tools/list"
      [] k = 4 -> "resources/list"

\* Requests with the probe's own request written before initialize
RequestsProbeFirst(k) == IF k = 1 THEN <<1>> ELSE <<RequestId, 1>>

\* the ids of the requests probe k writes to the child's stdin, in order
Requests(k) == IF k = 1 THEN <<1>> ELSE <<1, RequestId>>

\* the value _send_request hands to probe k (probe 1 does not call it)
NotCalled == [ok |-> FALSE, val |-> PyNone, exc |-> NoExc]
Returned(k, sess) == IF k = 1 THEN NotCalled ELSE SendRequest(sess)

\* probe k run on the session sess, starting from the result list res
RunProbe(k, res, sess) ==
    CASE k = 1 -> CheckServerStarts(res, sess)
      [] k = 2 -> CheckToolsList(res, SendRequest(sess))
      [] k = 3 -> CheckToolSchemas(res, SendRequest(sess))
      [] k = 4 -> CheckResourcesList(res, SendRequest(sess))

\* a child process a probe launched, or failed to launch
Child(k, status) ==
    [probe |-> k, status |-> status, timedOut |-> FALSE, written |-> <<>>,
     stdinClosed |-> FALSE]

\* lines 67-70 and 240-243: what wait_for leaves of the child when it times out
AfterTimeout(c) == [c EXCEPT !.timedOut = TRUE]

\* the child exited and communicate() returned
AfterExit(c) == [c EXCEPT !.status = "exited"]

\* whether create_subprocess_exec may succeed for the server
MayStart == IF server.fixed THEN {server.starts} ELSE BOOLEAN

\* the sessions the wait of the current probe may end with when the child
\* exits in time; stderr and the exit status are read by the startup probe alone
MayExit ==
    IF server.fixed
    THEN {sess \in {server.on[ProbeMethod(probe)]} : sess.kind = "done"}
    ELSE { Exited(rc, out, err) :
              rc \in IF probe = 1 THEN ReturnCodes ELSE {0},
              out \in Stdouts(ProbeMethod(probe)),
              err \in IF probe = 1 THEN Stderrs ELSE {TextBytes("")} }

\* whether the wait of the current probe may run into the timeout
MayTimeOut == server.fixed => server.on[ProbeMethod(probe)].kind = "timeout"

\* no other task: the caller runs one evaluator
NoTask == [id |-> 0]

\* perform() has not been called
NoReply == [action |-> "", kind |-> "", url |-> ""]

TypeOK ==
    /\ pc \in {"main", "launch", "write", "wait", "report", "exit", "exited",
               "crashed", "scan", "scanned", "caller", "agent"}
    /\ probe \in 0..NumProbes
    /\ exitCode \in {-1, 0, 1}
    /\ success \in BOOLEAN
    /\ Len(children) <= NumProbes * MaxRuns
    /\ Len(returned) <= MaxRuns
    /\ cur \in {1, 2}
    /\ other.id \in {0, 1, 2} \ {cur}
    /\ session.kind \in {"none", "launch_error", "timeout", "done"}

Init ==
    /\ pc = "main"
    /\ probe = 0
    /\ results = <<>>
    /\ children = <<>>
    /\ stdout = NoBytes
    /\ ret = NotCalled
    /\ success = FALSE
    /\ exitCode = -1
    /\ argc \in {1, 2}
    /\ session = NoSession
    /\ server = AnyServer
    /\ returned = <<>>
    /\ cur = 1
    /\ other = NoTask
    /\ stores = <<>>
    /\ manifestCache = <<>>
    /\ reply = NoReply

\* main, lines 293-296: no server command given
MainUsage ==
    /\ pc = "main"
    /\ argc < 2
    /\ exitCode' = 1
    /\ pc' = "exited"
    /\ UNCHANGED <<probe, results, children, stdout, ret, success, argc,
                   session, caller, agent>>

\* evaluate() going on with the list of the call before
EvaluateResetKeeps(res) == res

\* evaluate, line 34: self.results is bound to a new, empty list
EvaluateReset(res) == <<>>

\* a list an earlier evaluate() returned, after `self.results.clear()`
KeptListCleared(old) == <<>>

\* line 34 binds a new list and does not touch the one self.results was bound
\* to: a list an earlier evaluate() returned keeps its elements
KeptList(old) == old

\* main, lines 298-299, and evaluate, line 34
MainEvaluate ==
    /\ pc = "main"
    /\ ~(argc < 2)
    /\ results' = EvaluateReset(results)
    /\ probe' = 1
    /\ pc' = "launch"
    /\ UNCHANGED <<children, stdout, ret, success, exitCode, argc, session, caller, agent>>

\* evaluate() returning as soon as a probe has reported a failed error
FinishProbeStopsOnError(out) ==
    /\ results' = out.results
    /\ IF out.raised THEN pc' = "crashed" /\ probe' = probe
       ELSE IF probe < NumProbes
               /\ ~(out.results # <<>>
                     /\ out.results[Len(out.results)].severity = "error")
       THEN pc' = "launch" /\ probe' = probe + 1
       ELSE pc' = "report" /\ probe' = NumProbes

\* the current probe ends with outcome out: the next probe, or evaluate returns
FinishProbe(out) ==
    /\ results' = out.results
    /\ IF out.raised THEN pc' = "crashed" /\ probe' = probe
       ELSE IF probe < NumProbes THEN pc' = "launch" /\ probe' = probe + 1
       ELSE pc' = "report" /\ probe' = probe

\* create_subprocess_exec, lines 47-52 and 212-217
Launch ==
    /\ pc = "launch"
    /\ \E started \in MayStart :
          IF started
          THEN /\ children' = Append(children, Child(probe, "running"))
               /\ pc' = "write"
               /\ stdout' = NoBytes
               /\ ret' = NotCalled
               /\ session' = NoSession
               /\ UNCHANGED <<probe, results>>
          ELSE /\ children' = Append(children, Child(probe, "failed"))
               /\ stdout' = NoBytes
               /\ ret' = Returned(probe, LaunchFailed(LaunchError))
               /\ session' = LaunchFailed(LaunchError)
               /\ FinishProbe(RunProbe(probe, results, LaunchFailed(LaunchError)))
    /\ UNCHANGED <<success, exitCode, argc, caller, agent>>

\* communicate(), lines 66-68 and 239-241: the requests are written, stdin is closed
WriteStdin ==
    /\ pc = "write"
    /\ children' = [children EXCEPT ![Len(children)].written = Requests(probe),
                                    ![Len(children)].stdinClosed = TRUE]
    /\ pc' = "wait"
    /\ UNCHANGED <<probe, results, stdout, ret, success, exitCode, argc,
                   session, caller, agent>>

\* the child exits within the timeout; the probe goes on with its output
WaitCompletes ==
    /\ pc = "wait"
    /\ \E sess \in MayExit :
          /\ session' = sess
          /\ children' = [children EXCEPT ![Len(children)] = AfterExit(@)]
          /\ stdout' = sess.stdout
          /\ ret' = Returned(probe, sess)
          /\ FinishProbe(RunProbe(probe, results, sess))
    /\ UNCHANGED <<success, exitCode, argc, caller, agent>>

\* wait_for given a timeout by the startup probe only
HasTimeoutAtStartupOnly(k) == k = 1

\* lines 69 and 242: the wait of probe k is given a timeout (10 seconds)
HasTimeout(k) == TRUE

\* wait_for gives up after the timeout, lines 67-70 and 240-243
WaitTimesOut ==
    /\ pc = "wait"
    /\ HasTimeout(probe)
    /\ children' = [children EXCEPT ![Len(children)] = AfterTimeout(@)]
    /\ MayTimeOut
    /\ session' = TimedOut
    /\ ret' = Returned(probe, TimedOut)
    /\ FinishProbe(RunProbe(probe, results, TimedOut))
    /\ UNCHANGED <<stdout, success, exitCode, argc, caller, agent>>

\* a child the harness gave up on exits by itself, at any later time
OrphanExits ==
    /\ \E i \in 1..Len(children) :
          /\ children[i].status = "running"
          /\ children[i].timedOut
          /\ children' = [children EXCEPT ![i].status = "exited"]
    /\ UNCHANGED <<pc, probe, results, stdout, ret, success, exitCode, argc,
                   session, caller, agent>>

\* main, line 300; the locals of the probes are gone once evaluate has returned
Report ==
    /\ pc = "report"
    /\ success' = PrintReport(results)
    /\ pc' = "exit"
    /\ stdout' = NoBytes
    /\ ret' = NotCalled
    /\ session' = NoSession
    /\ UNCHANGED <<probe, results, children, exitCode, argc, caller, agent>>

\* main, line 301
Exit ==
    /\ pc = "exit"
    /\ exitCode' = ExitStatus(success)
    /\ pc' = "exited"
    /\ UNCHANGED <<probe, results, children, stdout, ret, success, argc,
                   session, caller, agent>>

Next ==
    \/ MainUsage
    \/ MainEvaluate
    \/ Launch
    \/ WriteStdin
    \/ WaitCompletes
    \/ WaitTimesOut
    \/ OrphanExits
    \/ Report
    \/ Exit

Spec == Init /\ [][Next]_vars

(***************************************************************************)
(* The same program with what its scheduling guarantees: main and the      *)
(* steps that do not wait go on; create_subprocess_exec returns or raises; *)
(* the requests, a few hundred bytes, fit the pipe and are written whether *)
(* or not the child reads them; and the timer of wait_for fires if the     *)
(* wait is still pending when the timeout is over. Nothing is assumed of   *)
(* the child: it may never exit.                                           *)
(***************************************************************************)
SpecLive ==
    /\ Init
    /\ [][Next]_vars
    /\ WF_vars(MainUsage \/ MainEvaluate \/ Report \/ Exit)
    /\ WF_vars(Launch)
    /\ WF_vars(WriteStdin)
    /\ WF_vars(WaitTimesOut)

(***************************************************************************)
(* The response scan of _send_request on its own: every stdout of at most  *)
(* MaxLines lines is given to lines 245-255.                               *)
(***************************************************************************)
ToolsPayload == JDict([tools |-> JList(<<>>)])
OtherPayload == JDict([tools |-> JList(<<JDict([name |-> JStr("x")])>>)])

ScanLines ==
    {BlankLine, TextLine, JsonLine(JNum(5)), Notification, InitializeResponse,
     Response(RequestId, ToolsPayload), Response(RequestId, OtherPayload),
     ErrorResponse(RequestId), Response(9, OtherPayload)}

InitScan ==
    /\ pc = "scan"
    /\ probe = 0
    /\ results = <<>>
    /\ children = <<>>
    /\ stdout \in {Bytes(ls) : ls \in SeqsUpTo(ScanLines, MaxLines)} \cup {BadBytes}
    /\ ret = NotCalled
    /\ success = FALSE
    /\ exitCode = -1
    /\ argc = 2
    /\ session = NoSession
    /\ server = AnyServer
    /\ returned = <<>>
    /\ cur = 1
    /\ other = NoTask
    /\ stores = <<>>
    /\ manifestCache = <<>>
    /\ reply = NoReply

\* lines 245-255 applied to the collected stdout
Scan ==
    /\ pc = "scan"
    /\ ret' = ParseResponses(stdout)
    /\ pc' = "scanned"
    /\ UNCHANGED <<probe, results, children, stdout, success, exitCode, argc,
                   session, caller, agent>>

SpecCorrelator == InitScan /\ [][Scan]_vars

(***************************************************************************)
(* A caller that uses one evaluator for several runs against a server with *)
(* a fixed behaviour: evaluate() is called, returns its list, is called    *)
(* again.                                                                  *)
(***************************************************************************)
\* the sessions a server with a fixed behaviour may have for one method
FixedSessions(m) ==
    CASE m = "initialize" ->
           {TimedOut, Exited(0, NoBytes, TextBytes("")),
            Exited(1, NoBytes, TextBytes("boom")),
            Exited(1, Bytes(<<InitializeResponse>>), TextBytes(""))}
      [] m = "tools/list" ->
           {TimedOut, Exited(0, BadBytes, TextBytes("")),
            Exited(0, Bytes(<<InitializeResponse>>), TextBytes(""))}
           \cup { Exited(0, Bytes(<<InitializeResponse,
                                    Response(RequestId, JDict([tools |-> JList(ts)]))>>),
                         TextBytes("")) : ts \in SeqsUpTo(ToolEntries, MaxTools) }
      [] m = "resources/list" ->
           {TimedOut, Exited(0, Bytes(<<InitializeResponse>>), TextBytes("")),
            Exited(0, Bytes(<<InitializeResponse,
                              Response(RequestId, JDict([resources |-> JList(<<>>)]))>>),
                   TextBytes(""))}

FixedServers ==
    {FixedServer(FALSE, [m \in Methods |-> TimedOut])}
    \cup { FixedServer(TRUE, [m \in Methods |->
                                  CASE m = "initialize" -> a
                                    [] m = "tools/list" -> b
                                    [] m = "resources/list" -> c]) :
               a \in FixedSessions("initialize"), b \in FixedSessions("tools/list"),
               c \in FixedSessions("resources/list") }

\* MCPEvaluator(server_command), lines 28-30
InitTwice ==
    /\ pc = "caller"
    /\ probe = 0
    /\ results = <<>>
    /\ children = <<>>
    /\ stdout = NoBytes
    /\ ret = NotCalled
    /\ success = FALSE
    /\ exitCode = -1
    /\ argc = 2
    /\ session = NoSession
    /\ server \in FixedServers
    /\ returned = <<>>
    /\ cur = 1
    /\ other = NoTask
    /\ stores = <<>>
    /\ manifestCache = <<>>
    /\ reply = NoReply

\* the caller calls evaluate(), line 34
CallEvaluate ==
    /\ pc = "caller"
    /\ Len(returned) < MaxRuns
    /\ results' = EvaluateReset(results)
    /\ returned' = [i \in 1..Len(returned) |-> KeptList(returned[i])]
    /\ probe' = 1
    /\ pc' = "launch"
    /\ UNCHANGED <<children, stdout, ret, success, exitCode, argc, session,
                   server, cur, other, agent>>

\* evaluate() returns self.results to the caller, line 42
EvaluateReturns ==
    /\ pc = "report"
    /\ returned' = Append(returned, results)
    /\ pc' = "caller"
    /\ stdout' = NoBytes
    /\ ret' = NotCalled
    /\ session' = NoSession
    /\ UNCHANGED <<probe, results, children, success, exitCode, argc,
                   server, cur, other, agent>>

NextTwice ==
    \/ CallEvaluate
    \/ Launch
    \/ WriteStdin
    \/ WaitCompletes
    \/ WaitTimesOut
    \/ OrphanExits
    \/ EvaluateReturns

SpecTwice == InitTwice /\ [][NextTwice]_vars

(***************************************************************************)
(* A caller that runs two evaluators as tasks of one event loop, each      *)
(* against its own server. One task runs, the other waits at an await; the *)
(* loop may switch between them at every await.                            *)
(***************************************************************************)
PairServers ==
    { FixedServer(FALSE, [m \in Methods |-> TimedOut]),
      FixedServer(TRUE,
          [m \in Methods |->
              CASE m = "initialize" -> Exited(0, NoBytes, TextBytes(""))
                [] m = "tools/list" ->
                     Exited(0, Bytes(<<InitializeResponse,
                                Response(RequestId,
                                    JDict([tools |-> JList(<<Tool(<<>>)>>)]))>>),
                            TextBytes(""))
                [] m = "resources/list" ->
                     Exited(0, Bytes(<<InitializeResponse,
                                Response(RequestId,
                                    JDict([resources |-> JList(<<>>)]))>>),
                            TextBytes(""))]),
      FixedServer(TRUE,
          [m \in Methods |->
              CASE m = "initialize" -> Exited(1, NoBytes, TextBytes("boom"))
                [] m = "tools/list" ->
                     Exited(0, Bytes(<<InitializeResponse,
                                Response(RequestId,
                                    JDict([tools |-> JList(<<>>)]))>>),
                            TextBytes(""))
                [] m = "resources/list" -> TimedOut]) }

\* every evaluator going on with one and the same list
ResultsObjectShared(e) == 0

\* the list object self.results of evaluator e is bound to, lines 30 and 34:
\* each instance binds a list of its own
ResultsObject(e) == e

\* the state of a task that waits at an await
Task(id, sv) ==
    [id |-> id, pc |-> "caller", probe |-> 0, results |-> <<>>, children |-> <<>>,
     stdout |-> NoBytes, ret |-> NotCalled, session |-> NoSession, server |-> sv,
     returned |-> <<>>]

InitPair ==
    /\ pc = "caller"
    /\ probe = 0
    /\ results = <<>>
    /\ children = <<>>
    /\ stdout = NoBytes
    /\ ret = NotCalled
    /\ success = FALSE
    /\ exitCode = -1
    /\ argc = 2
    /\ session = NoSession
    /\ server \in PairServers
    /\ returned = <<>>
    /\ cur = 1
    /\ other \in {Task(2, sv) : sv \in PairServers}
    /\ stores = <<>>
    /\ manifestCache = <<>>
    /\ reply = NoReply

\* the event loop suspends the running task at its await and resumes the other
Switch ==
    /\ other.id # 0
    /\ cur' = other.id
    /\ other' = [id |-> cur, pc |-> pc, probe |-> probe, results |-> results,
                 children |-> children, stdout |-> stdout, ret |-> ret,
                 session |-> session, server |-> server, returned |-> returned]
    /\ pc' = other.pc
    /\ probe' = other.probe
    /\ results' = IF ResultsObject(other.id) = ResultsObject(cur) THEN results
                  ELSE other.results
    /\ children' = other.children
    /\ stdout' = other.stdout
    /\ ret' = other.ret
    /\ session' = other.session
    /\ server' = other.server
    /\ returned' = other.returned
    /\ UNCHANGED <<success, exitCode, argc, agent>>

NextPair ==
    \/ CallEvaluate
    \/ Launch
    \/ WriteStdin
    \/ WaitCompletes
    \/ WaitTimesOut
    \/ OrphanExits
    \/ EvaluateReturns
    \/ Switch

SpecPair == InitPair /\ [][NextPair]_vars

(***************************************************************************)
(* evaluate() as a function of the server: the list a run against a server *)
(* with a fixed behaviour returns when nothing else runs.                  *)
(***************************************************************************)
\* the session of probe k's child
SessionOf(sv, k) ==
    IF sv.starts THEN sv.on[ProbeMethod(k)] ELSE LaunchFailed(LaunchError)

\* lines 37-40, from probe k on
RECURSIVE RunProbes(_, _, _)
RunProbes(sv, res, k) ==
    IF k > NumProbes THEN res
    ELSE RunProbes(sv, RunProbe(k, res, SessionOf(sv, k)).results, k + 1)

RunAlone(sv) == RunProbes(sv, <<>>, 1)

(***************************************************************************)
(* RAPPStoreAgent (src/agents/rapp_store_agent/rapp_store_agent.py): the   *)
(* registry of stores and the manifest cache, and perform() on them.       *)
(***************************************************************************)
\* lines 40-45
DefaultStore ==
    [name |-> "RAPP Store", owner |-> "kody-w", repo |-> "RAPP_Store",
     branch |-> "main"]

CharAt(s, i) == SubSeq(s, i, i)

\* the last position of the longest run of characters other than "/" that
\* starts at position i of s (i - 1 when there is none): the group ([^/]+)
RECURSIVE SegmentEnd(_, _)
SegmentEnd(s, i) ==
    IF i > Len(s) \/ CharAt(s, i) = "/" THEN i - 1 ELSE SegmentEnd(s, i + 1)

GithubPrefix == "https://github.com/"

\* re.match(r'https://github\.com/([^/]+)/([^/]+)', store_url), line 569
MatchGithubUrl(url) ==
    LET no == [ok |-> FALSE, owner |-> "", repo |-> ""]
        a == Len(GithubPrefix) + 1
        b == SegmentEnd(url, a)
        c == b + 2
        d == SegmentEnd(url, c)
    IN  IF Len(url) < Len(GithubPrefix)
           \/ SubSeq(url, 1, Len(GithubPrefix)) # GithubPrefix THEN no
        ELSE IF b < a \/ b + 1 > Len(url) THEN no
        ELSE IF d < c THEN no
        ELSE [ok |-> TRUE, owner |-> SubSeq(url, a, b), repo |-> SubSeq(url, c, d)]

\* str.rstrip(chars): the trailing characters that are in chars are removed
RECURSIVE RStrip(_, _)
RStrip(s, chars) ==
    IF Len(s) > 0 /\ CharAt(s, Len(s)) \in chars
    THEN RStrip(SubSeq(s, 1, Len(s) - 1), chars)
    ELSE s

\* the characters of the argument of repo.rstrip('.git'), line 574
GitChars == {".", "g", "i", "t"}

\* line 143
CacheKey(store) == store.owner \o "/" \o store.repo

\* what the network gives for a manifest.json: a JSON object, JSON that is
\* not an object, or an error (HTTP error, no connection, not JSON)
Fetches == {"object", "array", "error"}

\* _fetch_manifest, lines 141-151
FetchManifest(cache, store, fetched) ==
    LET key == CacheKey(store)
    IN  IF key \in DOMAIN cache
        THEN [ok |-> TRUE, manifest |-> cache[key], cache |-> cache]
        ELSE IF fetched = "error"
        THEN [ok |-> FALSE, manifest |-> "", cache |-> cache]
        ELSE [ok |-> TRUE, manifest |-> fetched, cache |-> (key :> fetched) @@ cache]

\* _add_store with the new store appended before its manifest is fetched
AddStoreAppendsFirst(st, cache, url, fetched) ==
    LET m == MatchGithubUrl(url)
        repo == RStrip(m.repo, GitChars)
        new_store == [name |-> m.owner \o "/" \o repo, owner |-> m.owner,
                      repo |-> repo, branch |-> "main"]
        f == FetchManifest(cache, new_store, fetched)
    IN  IF url = "" THEN [stores |-> st, cache |-> cache, kind |-> "required"]
        ELSE IF ~m.ok THEN [stores |-> st, cache |-> cache, kind |-> "invalid"]
        ELSE IF \E i \in 1..Len(st) : st[i].owner = m.owner /\ st[i].repo = repo
        THEN [stores |-> st, cache |-> cache, kind |-> "already"]
        ELSE IF ~f.ok \/ f.manifest # "object"
        THEN [stores |-> Append(st, new_store), cache |-> f.cache, kind |-> "error"]
        ELSE [stores |-> Append(st, new_store), cache |-> f.cache, kind |-> "added"]

\* _add_store, lines 562-606
AddStore(st, cache, url, fetched) ==
    LET m == MatchGithubUrl(url)
        repo == RStrip(m.repo, GitChars)
        new_store == [name |-> m.owner \o "/" \o repo, owner |-> m.owner,
                      repo |-> repo, branch |-> "main"]
        f == FetchManifest(cache, new_store, fetched)
    IN  IF url = "" THEN [stores |-> st, cache |-> cache, kind |-> "required"]
        ELSE IF ~m.ok THEN [stores |-> st, cache |-> cache, kind |-> "invalid"]
        ELSE IF \E i \in 1..Len(st) : st[i].owner = m.owner /\ st[i].repo = repo
        THEN [stores |-> st, cache |-> cache, kind |-> "already"]
        ELSE IF ~f.ok \/ f.manifest # "object"
        THEN [stores |-> st, cache |-> f.cache, kind |-> "error"]
        ELSE [stores |-> Append(st, new_store), cache |-> f.cache, kind |-> "added"]

\* the loops over stores of _get_all_items (lines 158-181) and _list_stores
\* (lines 613-625): the manifest of each store is fetched, errors are skipped
RECURSIVE FetchAll(_, _, _, _)
FetchAll(cache, st, fetched, i) ==
    IF i > Len(st) THEN cache
    ELSE FetchAll(FetchManifest(cache, st[i], fetched[i]).cache, st, fetched, i + 1)

\* the store URLs given to add_store
StoreUrls ==
    {"", "https://github.com/acme/store", "https://github.com/acme/store.git",
     "https://github.com/acme/toolkit", "https://github.com/acme/toolk",
     "https://github.com/kody-w/RAPP_Store.git", "http://github.com/acme/store",
     "https://github.com/acme", "https://github.com/acme/store/tree/main"}

\* __init__, lines 97-98
InitStore ==
    /\ pc = "agent"
    /\ probe = 0
    /\ results = <<>>
    /\ children = <<>>
    /\ stdout = NoBytes
    /\ ret = NotCalled
    /\ success = FALSE
    /\ exitCode = -1
    /\ argc = 2
    /\ session = NoSession
    /\ server = AnyServer
    /\ returned = <<>>
    /\ cur = 1
    /\ other = NoTask
    /\ stores = <<DefaultStore>>
    /\ manifestCache = <<>>
    /\ reply = NoReply

evaluator == <<pc, probe, results, children, stdout, ret, success, exitCode, argc,
               session, caller>>

\* perform(action='add_store', store_url=url), lines 100-124 and 562-606
PerformAddStore ==
    /\ pc = "agent"
    /\ \E url \in StoreUrls, fetched \in Fetches :
          LET r == AddStore(stores, manifestCache, url, fetched)
          IN  /\ stores' = r.stores
              /\ manifestCache' = r.cache
              /\ reply' = [action |-> "add_store", kind |-> r.kind, url |-> url]
    /\ UNCHANGED evaluator

\* perform(action='list_stores'), lines 608-632
PerformListStores ==
    /\ pc = "agent"
    /\ \E fetched \in [1..Len(stores) -> Fetches] :
          manifestCache' = FetchAll(manifestCache, stores, fetched, 1)
    /\ reply' = [action |-> "list_stores", kind |-> "ok", url |-> ""]
    /\ UNCHANGED <<stores, evaluator>>

\* perform() with an action that reads the items of the stores through
\* _get_all_items: browse, search, details, install, convert; all but browse
\* return an error before any fetch when their parameter is missing, and
\* browse may leave the external stores out
PerformItems ==
    /\ pc = "agent"
    /\ \E action \in {"browse", "search", "details", "install", "convert"},
          given \in BOOLEAN, include_external \in BOOLEAN,
          fetched \in [1..Len(stores) -> Fetches] :
          /\ action = "browse" => given
          /\ action # "browse" => include_external
          /\ manifestCache' =
                IF ~given THEN manifestCache
                ELSE IF include_external
                THEN FetchAll(manifestCache, stores, fetched, 1)
                ELSE FetchAll(manifestCache, <<DefaultStore>>, fetched, 1)
          /\ reply' = [action |-> action, kind |-> IF given THEN "ok" ELSE "required",
                       url |-> ""]
    /\ UNCHANGED <<stores, evaluator>>

\* perform(action='categories'), lines 634-655
PerformCategories ==
    /\ pc = "agent"
    /\ \E fetched \in Fetches :
          LET f == FetchManifest(manifestCache, DefaultStore, fetched)
          IN  /\ manifestCache' = f.cache
              /\ reply' = [action |-> "categories",
                           kind |-> IF f.ok /\ f.manifest = "object" THEN "ok"
                                    ELSE "error",
                           url |-> ""]
    /\ UNCHANGED <<stores, evaluator>>

\* perform() with any other action, lines 120-121
PerformUnknown ==
    /\ pc = "agent"
    /\ reply' = [action |-> "other", kind |-> "unknown", url |-> ""]
    /\ UNCHANGED <<stores, manifestCache, evaluator>>

NextStore ==
    \/ PerformAddStore
    \/ PerformListStores
    \/ PerformItems
    \/ PerformCategories
    \/ PerformUnknown

SpecStore == InitStore /\ [][NextStore]_vars

(***************************************************************************)
(* Vocabulary of the properties.                                           *)
(***************************************************************************)
\* a result the report counts as a hard failure
IsFailedError(r) == r.severity = "error" /\ ~r.passed

NoFailedError(res) == \A i \in 1..Len(res) : ~IsFailedError(res[i])

\* evaluate() has returned its result list to main
EvaluateReturned == pc \in {"report", "exit", "exited"} /\ probe = NumProbes

\* probe k has returned to evaluate()
ProbeReturned(k) == probe > k \/ EvaluateReturned

\* the positions of the results with the given name
Named(res, name) == {i \in 1..Len(res) : res[i].name = name}

\* this step is the timeout of the current probe's wait
TimeoutStep ==
    /\ pc = "wait"
    /\ ~children[Len(children)].timedOut
    /\ children'[Len(children)].timedOut

\* this step is a failed launch of the current probe's child
LaunchFailureStep ==
    /\ pc = "launch"
    /\ Len(children') = Len(children) + 1
    /\ children'[Len(children')].status = "failed"

(***************************************************************************)
(* C1: when a run has been reported, main exits with 0 exactly if no       *)
(* result is a failed error, and with 1 otherwise; print_report returns    *)
(* that same verdict, and dropping the warning results from the list does  *)
(* not change it.                                                          *)
(***************************************************************************)
C1_ExitCodeLaw ==
    /\ pc = "exit" => (success <=> NoFailedError(results))
    /\ (pc = "exited" /\ probe = NumProbes) =>
          /\ exitCode \in {0, 1}
          /\ exitCode = 0 <=> NoFailedError(results)
          /\ exitCode = 0 <=>
                NoFailedError(SelectSeq(results, LAMBDA r : r.severity # "warning"))

\* a run that exits with 0 although one of its results is a failed warning
C1_Witness ==
    /\ pc = "exited"
    /\ exitCode = 0
    /\ \E i \in 1..Len(results) : results[i].severity = "warning" /\ ~results[i].passed

(***************************************************************************)
(* C2: no exception leaves evaluate(), and evaluate() runs the four probes *)
(* in the order Server Startup, Tools List, Tool Schemas, Resources List,  *)
(* each launching its child, whatever the earlier probes met.              *)
(***************************************************************************)
C2_ProbesContained ==
    /\ pc # "crashed"
    /\ \A i \in 1..Len(children) : children[i].probe = i
    /\ pc \in {"launch", "write", "wait"} =>
          Len(children) = (IF pc = "launch" THEN probe - 1 ELSE probe)
    /\ EvaluateReturned =>
          [i \in 1..Len(children) |-> ProbeName(children[i].probe)]
              = <<"Server Startup", "Tools List", "Tool Schemas", "Resources List">>

\* evaluate() returned after a failed launch, a timeout and a scan that raised
C2_Witness ==
    /\ pc = "report"
    /\ Len(children) = NumProbes
    /\ children[1].status = "failed"
    /\ children[2].timedOut
    /\ ~ret.ok /\ ret.exc.type = "AttributeError"

(***************************************************************************)
(* C3: once a probe has returned, the child that probe launched is not     *)
(* running any more, also when the probe's wait timed out.                 *)
(***************************************************************************)
C3_ChildTerminated ==
    \A i \in 1..Len(children) :
        ProbeReturned(children[i].probe) => children[i].status # "running"

(***************************************************************************)
(* C4 as stated: in each of the four probes a timeout of the wait leaves a *)
(* result of that probe with severity error, passed = false and a message  *)
(* containing "timed out".                                                 *)
(***************************************************************************)
C4_TimeoutIsTimedOutError ==
    \A i \in 1..Len(children) :
        (children[i].timedOut /\ ProbeReturned(children[i].probe)) =>
            \E j \in Named(results, ProbeName(children[i].probe)) :
                /\ IsFailedError(results[j])
                /\ Contains(results[j].message, "timed out")

(***************************************************************************)
(* C4 as amended: a timeout of the wait appends exactly one result, named  *)
(* after the probe. In Server Startup it is a failed error with the        *)
(* message "Server startup timed out"; in Tools List and Tool Schemas it   *)
(* is a failed error whose message does not contain "timed out"; in        *)
(* Resources List it is a passed info result.                              *)
(***************************************************************************)
C4_TimeoutSurfaces ==
    [][TimeoutStep =>
          /\ Len(results') = Len(results) + 1
          /\ SubSeq(results', 1, Len(results)) = results
          /\ LET r == results'[Len(results')]
             IN  /\ r.name = ProbeName(probe)
                 /\ probe = 1 =>
                       IsFailedError(r) /\ r.message = "Server startup timed out"
                 /\ probe \in {2, 3} =>
                       IsFailedError(r) /\ ~Contains(r.message, "timed out")
                 /\ probe = 4 => (r.passed /\ r.severity = "info")]_vars

\* the waits of Tools List and of Resources List have both timed out
C4_Witness ==
    /\ EvaluateReturned
    /\ children[2].timedOut
    /\ children[4].timedOut

(***************************************************************************)
(* C5 as stated: every probe whose launch fails leaves a result of that    *)
(* probe with severity error and passed = false, and the failure does not  *)
(* leave evaluate().                                                       *)
(***************************************************************************)
C5_LaunchFailureIsError ==
    /\ pc # "crashed"
    /\ \A i \in 1..Len(children) :
          (children[i].status = "failed" /\ ProbeReturned(children[i].probe)) =>
              \E j \in Named(results, ProbeName(children[i].probe)) :
                  IsFailedError(results[j])

(***************************************************************************)
(* C5 as amended: a failed launch appends exactly one result, named after  *)
(* the probe, and the run goes on. In Server Startup, Tools List and Tool  *)
(* Schemas it is a failed error; in Resources List it is a passed info     *)
(* result.                                                                 *)
(***************************************************************************)
C5_LaunchFailureSurfaces ==
    [][LaunchFailureStep =>
          /\ pc' # "crashed"
          /\ Len(results') = Len(results) + 1
          /\ SubSeq(results', 1, Len(results)) = results
          /\ LET r == results'[Len(results')]
             IN  /\ r.name = ProbeName(probe)
                 /\ probe \in {1, 2, 3} => IsFailedError(r)
                 /\ probe = 4 => (r.passed /\ r.severity = "info")]_vars

\* the launches of Tool Schemas and of Resources List have both failed
C5_Witness ==
    /\ EvaluateReturned
    /\ children[3].status = "failed"
    /\ children[4].status = "failed"

(***************************************************************************)
(* C6: every run that returns holds exactly one result named "Resources    *)
(* List", and that result is passed with severity info.                    *)
(***************************************************************************)
C6_ResourcesAlwaysReported ==
    EvaluateReturned =>
        /\ Cardinality(Named(results, "Resources List")) = 1
        /\ \A i \in Named(results, "Resources List") :
              results[i].passed /\ results[i].severity = "info"

(***************************************************************************)
(* C7: the Resources List probe only appends passed results, so it never   *)
(* adds a failed error; and a run whose other results hold no failed error *)
(* exits with 0.                                                           *)
(***************************************************************************)
C7_ResourcesNeverFail ==
    /\ [][(probe = NumProbes /\ pc \in {"launch", "wait"}) =>
             /\ Len(results') >= Len(results)
             /\ SubSeq(results', 1, Len(results)) = results
             /\ \A i \in (Len(results) + 1)..Len(results') : results'[i].passed
             /\ pc' # "crashed"]_vars
    /\ []((pc = "exited" /\ probe = NumProbes
             /\ NoFailedError(SelectSeq(results,
                                        LAMBDA r : r.name # "Resources List")))
          => exitCode = 0)

\* a run that exits with 0 although the resources/list exchange raised
C7_Witness ==
    /\ pc = "exited"
    /\ exitCode = 0
    /\ \E i \in 1..Len(results) :
          results[i].message = "Resources not implemented (optional)"

(***************************************************************************)
(* C8: for every decodable stdout, _send_request returns the payload of    *)
(* the first line, in stream order, whose id is 2, whatever lines with     *)
(* other ids or further lines with id 2 surround it, and returns None when *)
(* no line has id 2.                                                       *)
(***************************************************************************)
\* the line is a JSON object whose id is n
CarriesId(line, n) ==
    /\ line.k = "json"
    /\ line.json.t = "dict"
    /\ "id" \in DOMAIN line.json.v
    /\ line.json.v["id"] = JNum(n)

\* the payload of a response line: its result, None when it has none
PayloadOf(line) ==
    IF "result" \in DOMAIN line.json.v THEN line.json.v["result"] ELSE PyNone

C8_FirstMatchWins ==
    (pc = "scanned" /\ stdout.utf8) =>
        LET ls == stdout.lines
            matches == {i \in 1..Len(ls) : CarriesId(ls[i], RequestId)}
        IN  IF matches = {} THEN ret = Return(PyNone)
            ELSE LET first == CHOOSE i \in matches : \A j \in matches : i <= j
                 IN  ret = Return(PayloadOf(ls[first]))

(***************************************************************************)
(* C9: for every decodable stdout the scan does not raise, and its outcome *)
(* is the one it has on the same stdout with the malformed lines (blank,   *)
(* not JSON, JSON but not an object, an object without an id) left out.    *)
(***************************************************************************)
\* the line is a JSON object that has an id
HasId(line) ==
    line.k = "json" /\ line.json.t = "dict" /\ "id" \in DOMAIN line.json.v

C9_MalformedLinesSkipped ==
    (pc = "scanned" /\ stdout.utf8) =>
        /\ ret.ok
        /\ ret = ScanResponses(SelectSeq(stdout.lines, HasId), 1)

(***************************************************************************)
(* C10: when tools/list answers {"tools": []}, the Tools List probe        *)
(* appends exactly two results, a passed info "Tools List" with message    *)
(* "Found 0 tool(s)" and then a failed warning "Tools Count"; neither is a *)
(* failed error, and a run with such a result and no failed error from the *)
(* other probes exits with 0.                                              *)
(***************************************************************************)
C10_ZeroToolsWarning ==
    /\ [][(pc = "wait" /\ probe = 2 /\ ret'.ok
             /\ ret'.val = JDict([tools |-> JList(<<>>)])) =>
             /\ Len(results') = Len(results) + 2
             /\ SubSeq(results', 1, Len(results)) = results
             /\ results'[Len(results) + 1] =
                   [name |-> "Tools List", passed |-> TRUE,
                    message |-> "Found 0 tool(s)", severity |-> "info"]
             /\ LET r == results'[Len(results) + 2]
                IN  r.name = "Tools Count" /\ ~r.passed /\ r.severity = "warning"
             /\ NoFailedError(results) => NoFailedError(results')]_vars
    /\ []((pc = "exited" /\ probe = NumProbes
             /\ Named(results, "Tools Count") # {}
             /\ NoFailedError(SelectSeq(results,
                    LAMBDA r : r.name \notin {"Tools List", "Tools Count"})))
          => exitCode = 0)

\* a run that answered tools/list with no tools and exits with 0
C10_Witness ==
    /\ pc = "exited"
    /\ exitCode = 0
    /\ \E i \in 1..Len(results) : results[i].message = "Found 0 tool(s)"
    /\ Named(results, "Tools Count") # {}

(***************************************************************************)
(* Vocabulary of the properties about one probe.                           *)
(***************************************************************************)
\* probe k has just returned to evaluate(): what it was handed is still there
AfterProbe(k) ==
    IF k < NumProbes THEN pc = "launch" /\ probe = k + 1
    ELSE pc = "report" /\ probe = NumProbes

\* the probe whose code appends a result of this name
ProbeOfResult(r) ==
    CASE r.name = "Server Startup" -> 1
      [] r.name \in {"Tools List", "Tools Count"} -> 2
      [] r.name = "Resources List" -> 4
      [] OTHER -> 3

\* the results probe k contributed to the list res, in order
FromProbe(res, k) == SelectSeq(res, LAMBDA r : ProbeOfResult(r) = k)

IsFailedWarning(r) == r.severity = "warning" /\ ~r.passed
IsPassedInfo(r) == r.severity = "info" /\ r.passed

\* a tool entry with a name, no description and no inputSchema
BareTool == Tool(<<>>)
\* a tool entry the schema checks have nothing to say about
ValidTool == Tool([description |-> JStr("Echo"), inputSchema |-> ObjectSchema])

\* the tools array the Tool Schemas probe was handed holds only bare and
\* valid entries, and at least one bare one
OnlyBareTools ==
    /\ AfterProbe(3)
    /\ ret.ok
    /\ ret.val.t = "dict"
    /\ DOMAIN ret.val.v = {"tools"}
    /\ ret.val.v.tools.t = "list"
    /\ LET ts == ret.val.v.tools.v
       IN  /\ \A i \in 1..Len(ts) : ts[i] \in {BareTool, ValidTool}
           /\ \E i \in 1..Len(ts) : ts[i] = BareTool

NumBareTools == Cardinality({i \in 1..Len(ret.val.v.tools.v) :
                                 ret.val.v.tools.v[i] = BareTool})

(***************************************************************************)
(* C11 as stated: when the tools array holds bare entries (a name, no      *)
(* description, no inputSchema) besides valid ones, the Tool Schemas probe *)
(* contributes one result per bare entry, a failed warning for the missing *)
(* description, and nothing for the absent schema.                         *)
(***************************************************************************)
C11_BareToolOneResult ==
    OnlyBareTools =>
        LET mine == FromProbe(results, 3)
        IN  /\ Len(mine) = NumBareTools
            /\ \A i \in 1..Len(mine) : IsFailedWarning(mine[i])

(***************************************************************************)
(* C11 as the code has it: each bare entry contributes two results, the    *)
(* failed warning "Tool 'echo' Description" and then a passed info         *)
(* "Tool 'echo' Schema" for the absent schema.                             *)
(***************************************************************************)
C11_BareToolTwoResults ==
    OnlyBareTools =>
        LET mine == FromProbe(results, 3)
        IN  /\ Len(mine) = 2 * NumBareTools
            /\ \A i \in 1..NumBareTools :
                  /\ mine[2 * i - 1] =
                        [name |-> "Tool 'echo' Description", passed |-> FALSE,
                         message |-> "Tool missing description",
                         severity |-> "warning"]
                  /\ mine[2 * i].name = "Tool 'echo' Schema"
                  /\ IsPassedInfo(mine[2 * i])

\* the probe was handed a tools array of one bare entry and has returned
C11_Witness ==
    /\ OnlyBareTools
    /\ ret.val.v.tools.v = <<BareTool>>
    /\ Len(FromProbe(results, 3)) = 2

(***************************************************************************)
(* C12: the lists evaluate() returns for runs against a server with a      *)
(* fixed behaviour have the same number of results, and their results are  *)
(* equal position by position in name, passed flag and severity.           *)
(***************************************************************************)
SameOutcome(a, b) ==
    /\ Len(a) = Len(b)
    /\ \A i \in 1..Len(a) :
          /\ a[i].name = b[i].name
          /\ a[i].passed = b[i].passed
          /\ a[i].severity = b[i].severity

C12_RunsAgree ==
    \A i, j \in 1..Len(returned) : SameOutcome(returned[i], returned[j])

\* two runs have returned, with warnings among their results
C12_Witness ==
    /\ pc = "caller"
    /\ Len(returned) >= 2
    /\ Len(returned[2]) > NumProbes
    /\ \E i \in 1..Len(returned[2]) : IsFailedWarning(returned[2][i])

(***************************************************************************)
(* C14: every call of evaluate() starts from an empty result list; the     *)
(* list a call returned is not changed by a later call; and the list a     *)
(* later call returns holds the results of that run alone, one "Server     *)
(* Startup" result, at its head, and no more of a probe than one run       *)
(* gives.                                                                  *)
(***************************************************************************)
C14_FreshListEachRun ==
    /\ []((pc = "launch" /\ probe = 1) => results = <<>>)
    /\ [][/\ Len(returned') >= Len(returned)
           /\ \A i \in 1..Len(returned) : returned'[i] = returned[i]]_vars
    /\ [](\A i \in 1..Len(returned) :
             /\ Named(returned[i], "Server Startup") = {1}
             /\ Cardinality(Named(returned[i], "Tools List")) = 1
             /\ Cardinality(Named(returned[i], "Resources List")) <= 1)

\* the second call has returned; the first call's list is not empty
C14_Witness ==
    /\ pc = "caller"
    /\ Len(returned) = 2
    /\ returned[1] # <<>>
    /\ results = returned[2]

(***************************************************************************)
(* C13: during a run the result list only grows at its end, every step     *)
(* leaving the results it already holds as they are; what a step appends   *)
(* belongs to the probe that is running, so that the results of Server     *)
(* Startup come before those of Tools List, those before the results of    *)
(* Tool Schemas, and those before Resources List; and a "Tools Count"      *)
(* result always has a "Tools List" result right before it.                *)
(***************************************************************************)
C13_AppendOnlyInOrder ==
    /\ [][/\ Len(results') >= Len(results)
           /\ SubSeq(results', 1, Len(results)) = results
           /\ \A i \in (Len(results) + 1)..Len(results') :
                 ProbeOfResult(results'[i]) = probe]_vars
    /\ [](\A i, j \in 1..Len(results) :
             i < j => ProbeOfResult(results[i]) <= ProbeOfResult(results[j]))
    /\ [](\A i \in Named(results, "Tools Count") :
             i > 1 /\ results[i - 1].name = "Tools List")

\* a run that returned results of all four probes, "Tools Count" among them
C13_Witness ==
    /\ pc = "report"
    /\ Named(results, "Tools Count") # {}
    /\ \A k \in 1..NumProbes : FromProbe(results, k) # <<>>
    /\ Len(FromProbe(results, 3)) > 1

(***************************************************************************)
(* C15: the Errors, Warnings and Passed buckets of print_report partition  *)
(* the results of a run: each result is selected by exactly one of the     *)
(* three filters, and the three counts of the totals line add up to the    *)
(* number of results.                                                      *)
(***************************************************************************)
C15_BucketsPartition ==
    /\ \A i \in 1..Len(results) :
          Len(ErrorsBucket(<<results[i]>>)) + Len(WarningsBucket(<<results[i]>>))
              + Len(PassedBucket(<<results[i]>>)) = 1
    /\ Len(ErrorsBucket(results)) + Len(WarningsBucket(results))
          + Len(PassedBucket(results)) = Len(results)

\* a reported run with results in each of the three buckets
C15_Witness ==
    /\ pc = "exit"
    /\ ErrorsBucket(results) # <<>>
    /\ WarningsBucket(results) # <<>>
    /\ PassedBucket(results) # <<>>

(***************************************************************************)
(* C16: when the Server Startup probe has returned, the list holds exactly *)
(* one result, named "Server Startup". It is a failed error whose message  *)
(* contains "timed out" if the wait ran into the timeout; a passed info if *)
(* the child exited with status 0 or wrote anything to stdout, whatever    *)
(* its status; and a failed error if the child exited with another status  *)
(* and wrote nothing to stdout, its message then being "Server failed to   *)
(* start: " followed by the text of stderr when stderr is text. A child    *)
(* that could not be launched gives a failed error too.                    *)
(***************************************************************************)
C16_ServerStartup ==
    AfterProbe(1) =>
        /\ Len(results) = 1
        /\ results[1].name = "Server Startup"
        /\ session.kind \in {"timeout", "done", "launch_error"}
        /\ session.kind = "timeout" =>
              /\ IsFailedError(results[1])
              /\ Contains(results[1].message, "timed out")
        /\ (session.kind = "done"
              /\ (session.returncode = 0 \/ session.stdout # NoBytes)) =>
              IsPassedInfo(results[1])
        /\ (session.kind = "done"
              /\ session.returncode # 0 /\ session.stdout = NoBytes) =>
              /\ IsFailedError(results[1])
              /\ session.stderr.utf8 =>
                    results[1].message =
                        "Server failed to start: " \o session.stderr.text
        /\ session.kind = "launch_error" => IsFailedError(results[1])

\* the child exited with status 1, wrote "boom" to stderr and nothing to stdout
C16_Witness ==
    /\ AfterProbe(1)
    /\ session = Exited(1, NoBytes, TextBytes("boom"))
    /\ Contains(results[1].message, "boom")

(***************************************************************************)
(* Vocabulary: the value _send_request handed to the probe.                *)
(***************************************************************************)
\* the id-2 result is a JSON object with a tools field
HasToolsField(v) == v.t = "dict" /\ "tools" \in DOMAIN v.v

\* no id-2 result, or one that is an object without a tools field
LacksToolsField(v) == v = PyNone \/ (v.t = "dict" /\ "tools" \notin DOMAIN v.v)

(***************************************************************************)
(* C17 as stated: when the Tools List probe has returned, the list holds   *)
(* exactly one result named "Tools List"; it is a passed info whenever the *)
(* id-2 result has a tools field, the failed error "Invalid tools/list     *)
(* response" when there is no id-2 result or it has no tools field, and    *)
(* the only result of the probe, a failed error, when _send_request        *)
(* raised.                                                                 *)
(***************************************************************************)
C17_ToolsFieldPasses ==
    AfterProbe(2) =>
        LET mine == FromProbe(results, 2)
        IN  /\ Cardinality(Named(results, "Tools List")) = 1
            /\ mine[1].name = "Tools List"
            /\ (ret.ok /\ HasToolsField(ret.val)) => IsPassedInfo(mine[1])
            /\ (ret.ok /\ LacksToolsField(ret.val)) =>
                  /\ IsFailedError(mine[1])
                  /\ mine[1].message = "Invalid tools/list response"
            /\ ~ret.ok => Len(mine) = 1 /\ IsFailedError(mine[1])

(***************************************************************************)
(* C17 as the code has it: exactly one result named "Tools List" per run.  *)
(* It is the passed info "Found n tool(s)" when the id-2 result has a      *)
(* tools field that is an array of n entries (followed by "Tools Count"    *)
(* exactly when n is 0); the failed error "Invalid tools/list response"    *)
(* when there is no id-2 result or it has no tools field; and in every     *)
(* other case (_send_request raised, the result is not an object, the      *)
(* tools field is not an array) the probe raises, and its only result is   *)
(* one failed error.                                                       *)
(***************************************************************************)
C17_ToolsArrayPasses ==
    AfterProbe(2) =>
        LET mine == FromProbe(results, 2)
            counted == ret.ok /\ HasToolsField(ret.val) /\ ret.val.v.tools.t = "list"
        IN  /\ Cardinality(Named(results, "Tools List")) = 1
            /\ mine[1].name = "Tools List"
            /\ counted =>
                  LET n == Len(ret.val.v.tools.v)
                  IN  /\ mine[1] = [name |-> "Tools List", passed |-> TRUE,
                                    message |-> "Found " \o ToString(n) \o " tool(s)",
                                    severity |-> "info"]
                      /\ Len(mine) = IF n = 0 THEN 2 ELSE 1
            /\ (ret.ok /\ LacksToolsField(ret.val)) =>
                  mine = <<[name |-> "Tools List", passed |-> FALSE,
                            message |-> "Invalid tools/list response",
                            severity |-> "error"]>>
            /\ (~counted /\ ~(ret.ok /\ LacksToolsField(ret.val))) =>
                  Len(mine) = 1 /\ IsFailedError(mine[1])

\* the probe was handed {"tools": null} and reported one failed error
C17_Witness ==
    /\ AfterProbe(2)
    /\ ret.ok
    /\ ret.val = JDict([tools |-> JNull])
    /\ Len(FromProbe(results, 2)) = 1
    /\ IsFailedError(FromProbe(results, 2)[1])

(***************************************************************************)
(* Vocabulary: the inputs on which the Tool Schemas probe meets an         *)
(* exception.                                                              *)
(***************************************************************************)
\* the checks of this tool entry raise: it is not a JSON object, or it has a
\* name and an inputSchema that is not a JSON object
EntryRaises(e) ==
    \/ e.t \in {"null", "num"}
    \/ /\ e.t = "dict"
       /\ {"name", "inputSchema"} \subseteq DOMAIN e.v
       /\ e.v.inputSchema.t # "dict"

\* the first tool entry whose checks raise, 0 if there is none
FirstRaising(ts) ==
    IF \E i \in 1..Len(ts) : EntryRaises(ts[i])
    THEN CHOOSE i \in 1..Len(ts) :
             EntryRaises(ts[i]) /\ \A j \in 1..(i - 1) : ~EntryRaises(ts[j])
    ELSE 0

\* the probe raises before it looks at a tool entry: _send_request raised, the
\* id-2 result is not an object, or its tools field cannot be iterated
RaisesBeforeEntries ==
    \/ ~ret.ok
    \/ ret.val.t \in {"num", "str", "list"} /\ Truthy(ret.val)
    \/ HasToolsField(ret.val) /\ ret.val.v.tools.t \in {"null", "num"}

\* the probe raises somewhere
ToolSchemasRaises ==
    \/ RaisesBeforeEntries
    \/ /\ ret.ok
       /\ HasToolsField(ret.val)
       /\ ret.val.v.tools.t = "list"
       /\ FirstRaising(ret.val.v.tools.v) > 0

(***************************************************************************)
(* C18 as stated: when the Tool Schemas probe met an exception, all it has *)
(* contributed to the list is one failed error named "Tool Schemas".       *)
(***************************************************************************)
C18_ExceptionOnlyResult ==
    (AfterProbe(3) /\ ToolSchemasRaises) =>
        LET mine == FromProbe(results, 3)
        IN  /\ Len(mine) = 1
            /\ mine[1].name = "Tool Schemas"
            /\ IsFailedError(mine[1])

(***************************************************************************)
(* C18 as the code has it: the probe contributes a result named            *)
(* "Tool Schemas" exactly when it met an exception; it is then one failed  *)
(* error and the last result of the probe, after the results of the tool   *)
(* entries checked before the exception (none of them named                *)
(* "Tool Schemas"); it is the only result of the probe when the exception  *)
(* came before any entry was checked or from the first entry.              *)
(***************************************************************************)
C18_ExceptionLastResult ==
    AfterProbe(3) =>
        LET mine == FromProbe(results, 3)
        IN  /\ ToolSchemasRaises =>
                  /\ Named(mine, "Tool Schemas") = {Len(mine)}
                  /\ IsFailedError(mine[Len(mine)])
                  /\ Contains(mine[Len(mine)].message, "Error checking schemas: ")
            /\ (RaisesBeforeEntries
                   \/ (ToolSchemasRaises /\ FirstRaising(ret.val.v.tools.v) = 1)) =>
                  Len(mine) = 1
            /\ ~ToolSchemasRaises => Named(mine, "Tool Schemas") = {}

\* the second tool entry raised after the first had contributed two results
C18_Witness ==
    /\ AfterProbe(3)
    /\ ret.ok
    /\ ret.val = JDict([tools |-> JList(<<BareTool, JNum(5)>>)])
    /\ Len(FromProbe(results, 3)) = 3
    /\ FromProbe(results, 3)[3].name = "Tool Schemas"

(***************************************************************************)
(* C19: two evaluators run as interleaved tasks, each against its own      *)
(* server: every list either of them returns is the list a run against its *)
(* server returns when it runs alone, whatever the other task did in       *)
(* between.                                                                *)
(***************************************************************************)
C19_RunsIsolated ==
    /\ \A i \in 1..Len(returned) : returned[i] = RunAlone(server)
    /\ pc = "report" => results = RunAlone(server)
    /\ other.id # 0 =>
          /\ \A i \in 1..Len(other.returned) :
                other.returned[i] = RunAlone(other.server)
          /\ other.pc = "report" => other.results = RunAlone(other.server)

\* the running task has returned a list while the other task, suspended in
\* the middle of its run, has results of its own, other than those returned
C19_Witness ==
    /\ other.id # 0
    /\ Len(returned) >= 1
    /\ other.pc = "wait"
    /\ other.probe = 3
    /\ other.results # <<>>
    /\ other.results # SubSeq(returned[1], 1, Len(other.results))

(***************************************************************************)
(* C20: when main is given a server command, evaluate() eventually returns *)
(* its list, after all four probes, whatever the server does: every wait   *)
(* for a child ends, with the exit of the child or with the timeout, and   *)
(* no probe lets an exception end the run early.                           *)
(***************************************************************************)
C20_EvaluateTerminates ==
    (pc = "main" /\ argc = 2) => <>(pc = "report" /\ probe = NumProbes)

\* evaluate() has returned although none of the four children ever exited
C20_Witness ==
    /\ pc = "report"
    /\ Len(children) = NumProbes
    /\ \A i \in 1..NumProbes :
          children[i].timedOut /\ children[i].status = "running"
    /\ Len(results) = NumProbes

(***************************************************************************)
(* Vocabulary: the tools array the Tool Schemas probe was handed.          *)
(***************************************************************************)
\* the probe has returned and was handed a tools array
HandedTools ==
    /\ AfterProbe(3)
    /\ ret.ok
    /\ HasToolsField(ret.val)
    /\ ret.val.v.tools.t = "list"

ToolsHanded == ret.val.v.tools.v

\* the entry has a name and an inputSchema whose type is not "object": the
\* type is another value or missing, or the inputSchema is not a JSON object
HasBadSchema(e) ==
    /\ e.t = "dict"
    /\ {"name", "inputSchema"} \subseteq DOMAIN e.v
    /\ ~(/\ e.v.inputSchema.t = "dict"
         /\ "type" \in DOMAIN e.v.inputSchema.v
         /\ e.v.inputSchema.v.type = JStr("object"))

IsSchemaWarning(r) == r.name = "Tool 'echo' Schema" /\ IsFailedWarning(r)

(***************************************************************************)
(* C21: when every entry of the tools array is a JSON object, the Tool     *)
(* Schemas probe appends one failed warning "Tool 'echo' Schema" for each  *)
(* entry that has a name and an inputSchema whose type is not "object"     *)
(* (another type, no type, an inputSchema that is not an object), and goes *)
(* on with the next entry: no "Tool Schemas" error ends the loop.          *)
(***************************************************************************)
C21_BadSchemaWarns ==
    (HandedTools /\ \A i \in 1..Len(ToolsHanded) : ToolsHanded[i].t = "dict") =>
        LET mine == FromProbe(results, 3)
        IN  /\ Cardinality({i \in 1..Len(mine) : IsSchemaWarning(mine[i])}) =
                  Cardinality({i \in 1..Len(ToolsHanded) : HasBadSchema(ToolsHanded[i])})
            /\ Named(mine, "Tool Schemas") = {}

(***************************************************************************)
(* Vocabulary: the names of the results the checks of the tool entries     *)
(* give, entry by entry, when no entry raises.                             *)
(***************************************************************************)
LacksDescription(e) ==
    "description" \notin DOMAIN e.v \/ ~Truthy(e.v.description)

NamesFor(e) ==
    IF "name" \notin DOMAIN e.v THEN <<"Tool Schema">>
    ELSE (IF LacksDescription(e) THEN <<"Tool 'echo' Description">> ELSE <<>>)
         \o (IF "inputSchema" \notin DOMAIN e.v \/ HasBadSchema(e)
             THEN <<"Tool 'echo' Schema">> ELSE <<>>)

RECURSIVE NamesFrom(_, _)
NamesFrom(ts, i) ==
    IF i > Len(ts) THEN <<>> ELSE NamesFor(ts[i]) \o NamesFrom(ts, i + 1)

\* the probe was handed a tools array of JSON objects none of which raises
HandedCheckableTools ==
    /\ HandedTools
    /\ \A i \in 1..Len(ToolsHanded) : ~EntryRaises(ToolsHanded[i])

(***************************************************************************)
(* C22: in a tools array whose entries can be checked, every entry without *)
(* a name contributes exactly one result, the failed error "Tool Schema"   *)
(* with message "Tool missing 'name' field", and no description or schema  *)
(* result; the entries after it are checked as they are without it.        *)
(***************************************************************************)
C22_UnnamedToolSkipped ==
    HandedCheckableTools =>
        LET mine == FromProbe(results, 3)
        IN  /\ [i \in 1..Len(mine) |-> mine[i].name] = NamesFrom(ToolsHanded, 1)
            /\ \A i \in Named(mine, "Tool Schema") :
                  mine[i] = [name |-> "Tool Schema", passed |-> FALSE,
                             message |-> "Tool missing 'name' field",
                             severity |-> "error"]

\* an entry without a name came first, and the entry after it was checked
C22_Witness ==
    /\ HandedCheckableTools
    /\ Len(ToolsHanded) = 2
    /\ "name" \notin DOMAIN ToolsHanded[1].v
    /\ ToolsHanded[2] = BareTool
    /\ Len(FromProbe(results, 3)) = 3

(***************************************************************************)
(* C23: in a tools array whose entries can be checked, every entry with a  *)
(* name and no inputSchema contributes the passed info result              *)
(* "Tool 'echo' Schema" with message "Tool has valid schema (no input      *)
(* required)", whether or not it has a description; no other entry does.   *)
(***************************************************************************)
NoInputRequired ==
    [name |-> "Tool 'echo' Schema", passed |-> TRUE,
     message |-> "Tool has valid schema (no input required)", severity |-> "info"]

C23_AbsentSchemaIsValid ==
    HandedCheckableTools =>
        LET mine == FromProbe(results, 3)
        IN  Cardinality({i \in 1..Len(mine) : mine[i] = NoInputRequired}) =
            Cardinality({i \in 1..Len(ToolsHanded) :
                            /\ "name" \in DOMAIN ToolsHanded[i].v
                            /\ "inputSchema" \notin DOMAIN ToolsHanded[i].v})

\* two entries without inputSchema, one without and one with a description
C23_Witness ==
    /\ HandedCheckableTools
    /\ ToolsHanded = <<BareTool, Tool([description |-> JStr("Echo")])>>
    /\ [i \in 1..3 |-> FromProbe(results, 3)[i].name] =
          <<"Tool 'echo' Description", "Tool 'echo' Schema", "Tool 'echo' Schema">>

(***************************************************************************)
(* C24: every probe launches one child of its own: the k-th launch of a    *)
(* run is made by probe k, a launch happens only when a probe starts, a    *)
(* run that has returned has made exactly four launches, and the server    *)
(* the evaluator was constructed for is the same at every step.            *)
(***************************************************************************)
C24_OneChildPerProbe ==
    /\ [](\A i \in 1..Len(children) : children[i].probe = i)
    /\ [](EvaluateReturned => Len(children) = NumProbes)
    /\ [][/\ Len(children') \in {Len(children), Len(children) + 1}
           /\ Len(children') > Len(children) =>
                 pc = "launch" /\ children'[Len(children')].probe = probe
           /\ server' = server]_vars

\* a run has returned after four launches, the first of which failed to exit
C24_Witness ==
    /\ EvaluateReturned
    /\ Len(children) = NumProbes
    /\ children[1].timedOut
    /\ children[NumProbes].status = "exited"

(***************************************************************************)
(* C25: a child that was launched is written the request with id 1 and,    *)
(* in the probes after Server Startup, then one request with id 2, and its *)
(* stdin is closed with that write; a child that failed to launch is       *)
(* written nothing; and _send_request has searched the output for the id-2 *)
(* response only when the child of the probe was launched, was written     *)
(* both requests, had its stdin closed and exited within the timeout.      *)
(***************************************************************************)
C25_WriteBeforeScan ==
    /\ \A i \in 1..Len(children) :
          LET c == children[i]
              sent == IF c.probe = 1 THEN <<1>> ELSE <<1, 2>>
          IN  /\ c.written \in {<<>>, sent}
              /\ c.stdinClosed <=> c.written = sent
              /\ c.status = "failed" => c.written = <<>>
              /\ (c.status # "failed" /\ (i < Len(children) \/ pc # "write")) =>
                    c.written = sent
    /\ ret.ok =>
          /\ children # <<>>
          /\ LET c == children[Len(children)]
             IN  /\ c.probe > 1
                 /\ c.status = "exited"
                 /\ ~c.timedOut
                 /\ c.written = <<1, 2>>
                 /\ c.stdinClosed

\* the Tools List probe has searched the output of its child
C25_Witness ==
    /\ AfterProbe(2)
    /\ ret.ok
    /\ children[2].written = <<1, 2>>
    /\ children[2].status = "exited"

(***************************************************************************)
(* C26: at every moment of a run at most one of the children the run has   *)
(* launched is still running, also after a probe has timed out and the     *)
(* next probe has launched its child.                                      *)
(***************************************************************************)
StillRunning == {i \in 1..Len(children) : children[i].status = "running"}

C26_OneChildRunning == Cardinality(StillRunning) <= 1

(***************************************************************************)
(* C27: every result in the list has a severity among info, warning and    *)
(* error, and has passed exactly if its severity is info.                  *)
(***************************************************************************)
C27_PassedIffInfo ==
    \A i \in 1..Len(results) :
        /\ results[i].severity \in {"info", "warning", "error"}
        /\ results[i].passed <=> results[i].severity = "info"

\* a reported run with passed, warning and error results, one of them the
\* lenient result of the resources probe
C27_Witness ==
    /\ pc = "exit"
    /\ \E i \in 1..Len(results) : results[i].severity = "warning"
    /\ \E i \in 1..Len(results) : results[i].severity = "error"
    /\ \E i \in 1..Len(results) :
          results[i].message = "Resources not implemented (optional)"

(***************************************************************************)
(* C28: the step in which the Tool Schemas probe returns leaves the result *)
(* list as it was when _send_request handed it no id-2 result or one       *)
(* without a tools field, and when it handed it a tools array all of whose *)
(* entries have a name, a non-empty description and an inputSchema of type *)
(* "object".                                                               *)
(***************************************************************************)
C28_ToolSchemasSilent ==
    [][(pc = "wait" /\ probe = 3 /\ ret'.ok
          /\ \/ LacksToolsField(ret'.val)
             \/ /\ HasToolsField(ret'.val)
                /\ ret'.val.v.tools.t = "list"
                /\ \A i \in 1..Len(ret'.val.v.tools.v) :
                      ret'.val.v.tools.v[i] = ValidTool)
       => results' = results]_vars

\* the probe was handed two valid tools and has added nothing to the results
\* of the probes before it
C28_Witness ==
    /\ HandedTools
    /\ ToolsHanded = <<ValidTool, ValidTool>>
    /\ FromProbe(results, 3) = <<>>
    /\ Len(results) >= 2

(***************************************************************************)
(* C29, C30: the store registry of RAPPStoreAgent.                         *)
(***************************************************************************)
NoDuplicateStores ==
    \A i, j \in 1..Len(stores) :
        stores[i].owner = stores[j].owner /\ stores[i].repo = stores[j].repo
            => i = j

\* the registry after the step begins with the registry before it
StoresKept ==
    /\ Len(stores') >= Len(stores)
    /\ SubSeq(stores', 1, Len(stores)) = stores

\* the step is an add_store call that fails
AddStoreFails == reply'.action = "add_store" /\ reply'.kind # "added"

\* C29: whatever perform() actions are taken, the registry never holds two
\* entries with the same (owner, repo), its first entry is the default
\* store, no step removes or replaces an entry, and an add_store call that
\* fails (missing URL, invalid URL, already registered, manifest not
\* fetched) leaves the registry as it was.
C29_RegistryOnlyGrows ==
    /\ [](NoDuplicateStores /\ Len(stores) >= 1 /\ stores[1] = DefaultStore)
    /\ [][StoresKept /\ (AddStoreFails => stores' = stores)]_vars

\* a store has been added, and a further add_store, of another store, has
\* then failed on the fetch of the manifest
C29_Witness ==
    /\ Len(stores) = 2
    /\ reply.action = "add_store"
    /\ reply.kind = "error"

\* the repository name with the suffix ".git", and nothing else, removed
WithoutGitSuffix(s) ==
    IF Len(s) >= 4 /\ SubSeq(s, Len(s) - 3, Len(s)) = ".git"
    THEN SubSeq(s, 1, Len(s) - 4)
    ELSE s

\* url is https://github.com/<owner>/<repo> and nothing more
IsRepoUrl(url) ==
    LET m == MatchGithubUrl(url)
    IN  /\ m.ok
        /\ url = GithubPrefix \o m.owner \o "/" \o m.repo

====
